---- MODULE Spec2Model ----
(***************************************************************************)
(* PDF digital signing with a PKCS#11 hardware token or a PKCS#12          *)
(* container (src/src/security/pdf_signature.py, class PDFSignature) and   *)
(* the caller of the token flow (src/src/ui/pdf_actions.py).               *)
(*                                                                         *)
(* The program is single threaded: one public method runs at a time.  A    *)
(* method is modelled as a sequence of steps, one per call that touches    *)
(* the token or the file system, so that the states other processes can    *)
(* observe (a truncated output file, an open token session) are states of  *)
(* the model.  Every failure the code handles (an exception raised by the  *)
(* token, the CMS library or the file system) is a nondeterministic branch *)
(* of the step that can raise it.                                          *)
(***************************************************************************)
EXTENDS Integers, Sequences, FiniteSets, TLC

\* ------------------------------------------------------------------ bounds
\* how many public methods are called one after another in one behaviour
MaxCalls == 1

\* ------------------------------------------------------------- the host
Modules == {"dllA", "dllB"}
\* the order of pkcs11.getSlotList(tokenPresent=True)
SlotOrder == <<0, 1>>
Slots == {SlotOrder[i] : i \in 1..Len(SlotOrder)}
Keys == Modules \X Slots
NoSlot == -1
NoId == 0

Pins == {"1234", "0000"}

\* certificate objects: CKA_ID, CKA_LABEL, validity (not_before <= now <=
\* not_after), the CN of the subject ("" when it has none) and the text of
\* the whole subject name
CertAlice == [id |-> 1, label |-> "c1", valid |-> TRUE, cn |-> "Alice",
              dn |-> "CN=Alice"]
CertOld == [id |-> 2, label |-> "c2", valid |-> FALSE, cn |-> "Bob",
            dn |-> "CN=Bob"]
CertOrg == [id |-> 3, label |-> "c3", valid |-> TRUE, cn |-> "",
            dn |-> "O=Acme"]
NoCert == [id |-> NoId, label |-> "", valid |-> FALSE, cn |-> "", dn |-> ""]
CertLabels == {"c2"}

\* the digest cms.sign is called with (line 576) and the PyKCS11 mechanism
\* constant sign() derives from it (line 529); "" stands for a name PyKCS11
\* does not define
Digest == "sha256"
MechOf(mech) ==
    IF mech = "sha256" THEN "CKM_SHA256_RSA_PKCS"
    ELSE IF mech = "sha1" THEN "CKM_SHA1_RSA_PKCS"
    ELSE ""
AllMechs == {"CKM_SHA256_RSA_PKCS", "CKM_SHA1_RSA_PKCS"}

\* physical tokens: serial number, label, user PIN, certificate objects and
\* the CKA_IDs of the private-key objects, in findObjects order, and the
\* signing mechanisms the token supports
NoTok == [present |-> FALSE, serial |-> "", label |-> "", pin |-> "",
          certs |-> <<>>, keys |-> <<>>, mechs |-> {}]
TokA == [present |-> TRUE, serial |-> "S1", label |-> "L1", pin |-> "1234",
         certs |-> <<CertAlice>>, keys |-> <<1>>, mechs |-> AllMechs]
TokOld == [present |-> TRUE, serial |-> "S2", label |-> "L2", pin |-> "1234",
           certs |-> <<CertOld>>, keys |-> <<2>>, mechs |-> AllMechs]
TokBare == [present |-> TRUE, serial |-> "S3", label |-> "L2", pin |-> "1234",
            certs |-> <<>>, keys |-> <<>>, mechs |-> AllMechs]
\* two certificates, and the private keys listed in the other order
TokDual == [present |-> TRUE, serial |-> "S4", label |-> "L1", pin |-> "1234",
            certs |-> <<CertAlice, CertOld>>, keys |-> <<2, 1>>,
            mechs |-> AllMechs]
\* a second token that carries the label of TokDual
TokTwin == [present |-> TRUE, serial |-> "S5", label |-> "L1", pin |-> "0000",
            certs |-> <<CertOld>>, keys |-> <<2>>, mechs |-> AllMechs]
\* a certificate without a CN comes before the holder's certificate
TokOrg == [present |-> TRUE, serial |-> "S7", label |-> "L1", pin |-> "1234",
           certs |-> <<CertOrg, CertAlice>>, keys |-> <<3, 1>>,
           mechs |-> AllMechs]
\* an older token without the SHA-256 mechanism
TokSha1 == [present |-> TRUE, serial |-> "S6", label |-> "L2", pin |-> "1234",
            certs |-> <<CertAlice>>, keys |-> <<1>>,
            mechs |-> {"CKM_SHA1_RSA_PKCS"}]

Hw(a0, a1, b0, b1) ==
    [k \in Keys |->
        IF k = <<"dllA", 0>> THEN a0
        ELSE IF k = <<"dllA", 1>> THEN a1
        ELSE IF k = <<"dllB", 0>> THEN b0
        ELSE b1]

\* a host: which module files exist and load, what each (module, slot) holds,
\* whether the endesive / PyKCS11 packages can be imported, whether it runs
\* Windows, the module paths the directory search of _discover_token_dlls
\* finds, and the smart-card registry: whether it can be read and the module
\* paths its values name
NoReg == [ok |-> TRUE, vals |-> <<>>]
Host(mods, hw, libs, win, walk, reg) ==
    [mods |-> mods, hw |-> hw, libs |-> libs, win |-> win, walk |-> walk,
     reg |-> reg]
Hosts ==
    { Host({"dllA"}, Hw(TokA, NoTok, NoTok, NoTok), TRUE,
           TRUE, <<"dllA">>, [ok |-> TRUE, vals |-> <<"DLLA", "gone">>]),
      Host({"dllA"}, Hw(TokA, TokOld, NoTok, NoTok), TRUE, FALSE, <<>>, NoReg),
      Host({"dllA", "dllB"}, Hw(TokOld, NoTok, TokA, NoTok), TRUE,
           FALSE, <<>>, NoReg),
      Host({"dllA", "dllB"}, Hw(TokA, NoTok, TokA, TokBare), TRUE,
           FALSE, <<>>, NoReg),
      Host({"dllB"}, Hw(NoTok, NoTok, NoTok, TokOld), TRUE,
           TRUE, <<>>, [ok |-> FALSE, vals |-> <<"DLLA">>]),
      Host({}, Hw(NoTok, NoTok, NoTok, NoTok), TRUE, FALSE, <<>>, NoReg),
      Host({"dllA"}, Hw(TokA, NoTok, NoTok, NoTok), FALSE, FALSE, <<>>, NoReg),
      Host({"dllA"}, Hw(TokDual, TokTwin, NoTok, NoTok), TRUE,
           FALSE, <<>>, NoReg),
      Host({"dllA"}, Hw(TokSha1, TokOrg, NoTok, NoTok), TRUE,
           FALSE, <<>>, NoReg) }

\* PKCS#12 containers a caller can name: the file may be missing or malformed
\* (junk.pfx is no DER structure at all, torn.pfx is a PKCS#12 structure whose
\* content or MAC is damaged); a well-formed one has a passphrase, a
\* certificate and maybe a private key
Passwords == {"secret", "wrong"}
PfxNames ==
    {"good.pfx", "old.pfx", "nokey.pfx", "junk.pfx", "torn.pfx", "missing.pfx"}
Pfx(name) ==
    [exists |-> name # "missing.pfx",
     der |-> name # "junk.pfx",
     wellformed |-> name \notin {"junk.pfx", "torn.pfx"},
     pass |-> "secret",
     haskey |-> name # "nokey.pfx",
     cert |-> IF name = "old.pfx" THEN CertOld ELSE CertAlice]

\* --------------------------------------------------------- the file system
Paths == {"in.pdf", "out.pdf"}
Docs == {<<1, 2>>}
OldOut == <<5>>
\* what cms.sign returns: the bytes of the incremental update
Sigs == {<<7>>, <<7, 8>>}

Absent == [exists |-> FALSE, data |-> <<>>]
File(d) == [exists |-> TRUE, data |-> d]

IsPrefix(s, t) == Len(s) <= Len(t) /\ SubSeq(t, 1, Len(s)) = s

\* ------------------------------------------------------------------ state
VARIABLES
    host,       \* the host the program runs on (fixed in a behaviour)
    fs,         \* path -> file
    sess,       \* (module, slot) -> number of open PKCS#11 sessions
    logged,     \* (module, slot) -> the token is logged in (C_Login done)
    op,         \* the public method running, "none" between calls
    pc,         \* its position
    args,       \* its arguments
    tlabel,     \* local token_label of _sign_with_endesive
    hsession,   \* signer.session: the slot its session is on, or NoSlot
    keyid,      \* what certificate() returned: the CKA_ID
    certder,    \* ... and the certificate
    usedkey,    \* history: the CKA_ID of the private key session.sign used
    datau,      \* the input bytes read
    datas,      \* the bytes cms.sign returned
    ret,        \* the (success, message) result of the last call
    calls,      \* methods called so far
    pre,        \* history: fs when the running call started
    preSess,    \* history: sess when the running call started
    wopen,      \* history: paths this call opened for writing
    nlogin,     \* history: session.login(pin) calls of this call
    trail,      \* history: what this call did, as a set of marks
    di,         \* detect_usb_tokens: index of dll_path in dll_paths
    sj,         \* ... index of slot in slots
    seen,       \* ... seen_serials
    loads,      \* history: the module files loaded in this pass, in order
    tokens,     \* ... tokens
    li,         \* list_certificates_windows: index of token in tokens
    found,      \* the list an enumeration method returns (the copy kept in
                \* self._available_tokens, line 254, is read nowhere)
    ui          \* PDFActions._sign_with_usb_token: its position, the thread
                \* it makes its calls on, the tokens detect_usb_tokens
                \* returned to it, the token and PIN of the dialog

vars == <<host, fs, sess, logged, op, pc, args, tlabel, hsession, keyid,
          certder, usedkey, datau, datas, ret, calls, pre, preSess, wopen, nlogin, trail,
          di, sj, seen, loads, tokens, li, found, ui>>

NoArgs == [input |-> "", output |-> "", dll |-> "", slot |-> NoSlot, pin |-> "",
           label |-> "", certlabel |-> "", pfx |-> "", password |-> ""]
NoRet == [ok |-> FALSE, kind |-> "none"]
NoUi == [step |-> "none", thread |-> "none", tokens |-> <<>>, sel |-> 0,
         pin |-> ""]

Init ==
    /\ host \in Hosts
    /\ \E d \in Docs, o \in {Absent, File(OldOut)} :
          fs = [p \in Paths |-> IF p = "in.pdf" THEN File(d) ELSE o]
    /\ sess = [k \in Keys |-> 0]
    /\ logged = [k \in Keys |-> FALSE]
    /\ op = "none" /\ pc = "idle" /\ args = NoArgs
    /\ tlabel = "" /\ hsession = NoSlot /\ keyid = NoId /\ certder = NoCert
    /\ usedkey = NoId
    /\ datau = <<>> /\ datas = <<>>
    /\ ret = NoRet /\ calls = 0
    /\ pre = fs /\ preSess = sess /\ wopen = {} /\ nlogin = 0 /\ trail = {}
    /\ di = 0 /\ sj = 0 /\ seen = {} /\ tokens = <<>> /\ li = 0
    /\ loads = <<>>
    /\ found = <<>>
    /\ ui = NoUi

\* ---------------------------------------------------------------- helpers
\* the module file a path names: paths that differ only in spelling (case on
\* Windows) name one file
Resolve(path) == IF path = "DLLA" THEN "dllA" ELSE path

\* os.path.exists(dll_path) and the module loads
Loadable(dll) == Resolve(dll) \in host.mods
Tok(dll, slot) == host.hw[<<Resolve(dll), slot>>]

\* the slots of a module that hold a token, in getSlotList order
PresentSlots(dll) ==
    SelectSeq(SlotOrder, LAMBDA s : Tok(dll, s).present)

\* hsm.HSM.getSlot(label), reached from self.login: the first slot whose token
\* label equals the label, None when there is none
GetSlot(dll, label) ==
    LET m == SelectSeq(PresentSlots(dll), LAMBDA s : Tok(dll, s).label = label)
    IN IF Len(m) = 0 THEN NoSlot ELSE m[1]

\* lines 485-496: the label of the first present slot, "" when that fails
FirstLabel(dll) ==
    IF Loadable(dll) /\ Len(PresentSlots(dll)) > 0
        THEN Tok(dll, PresentSlots(dll)[1]).label
        ELSE ""

\* the frame of a step that touches neither the token nor the files
TokenSame == UNCHANGED <<sess, logged, hsession, nlogin>>
FilesSame == UNCHANGED <<fs, wopen>>
CallKept == UNCHANGED <<host, op, calls, pre, preSess, ui>>
EnumSame == UNCHANGED <<di, sj, seen, loads, tokens, li, found>>
SignSame == UNCHANGED <<tlabel, keyid, certder, usedkey, datau, datas>>
CallSame == CallKept /\ EnumSame /\ UNCHANGED args

\* return (False, message): the call ends, nothing else changes
Fail(kind) ==
    /\ pc' = "done"
    /\ ret' = [ok |-> FALSE, kind |-> kind]

\* the message kind of the generic "except Exception" handler of the running
\* method (lines 467-471 for the token flow, 695-699 for the container flow)
Raised == IF op = "sign_token" THEN "signing_failed" ELSE "pfx_error"

\* a public method is entered: the history variables restart
Enter(name, a, first) ==
    /\ pc = "idle"
    /\ op' = name /\ args' = a /\ pc' = first
    /\ tlabel' = a.label
    /\ ret' = NoRet
    /\ pre' = fs /\ preSess' = sess /\ wopen' = {} /\ nlogin' = 0 /\ trail' = {}
    /\ usedkey' = NoId
    /\ di' = 1 /\ sj' = 1 /\ seen' = {} /\ tokens' = <<>> /\ li' = 1
    /\ loads' = <<>>
    /\ found' = <<>>
    /\ UNCHANGED <<host, fs, sess, logged, hsession, keyid, certder, datau, datas>>

\* a caller other than the signing dialog calls a public method
Begin(name, a, first) ==
    /\ calls < MaxCalls /\ ui.step = "none"
    /\ calls' = calls + 1
    /\ Enter(name, a, first)
    /\ UNCHANGED ui

\* ------------------------------------------- sign_pdf_with_token (423-586)
\* the caller passes paths, the PKCS#11 module, a slot, the PIN, the label of
\* the token in that slot (pdf_actions.py 1862-1874) or no label, and maybe a
\* certificate label
CallSignToken ==
    \E i \in Paths, o \in Paths, d \in Modules, s \in Slots, p \in Pins,
       c \in CertLabels \cup {""} :
    \E l \in {"", Tok(d, s).label} :
        Begin("sign_token",
              [NoArgs EXCEPT !.input = i, !.output = o, !.dll = d, !.slot = s,
                             !.pin = p, !.label = l, !.certlabel = c],
              "tk_setup")

\* a build that stamps the page and reports success without the CMS library
TkSetupStamp ==
    /\ pc = "tk_setup"
    /\ IF ~host.libs
          THEN /\ fs' = [fs EXCEPT ![args.output] = File(@.data \o <<9>>)]
               /\ wopen' = wopen \cup {args.output}
               /\ pc' = "done" /\ ret' = [ok |-> TRUE, kind |-> "signed"]
               /\ UNCHANGED tlabel
          ELSE /\ tlabel' = IF tlabel = "" THEN FirstLabel(args.dll) ELSE tlabel
               /\ IF Loadable(args.dll)
                     THEN pc' = "tk_cert1_login" /\ UNCHANGED ret
                     ELSE Fail(Raised)
               /\ FilesSame
    /\ TokenSame /\ CallSame
    /\ UNCHANGED <<keyid, usedkey, certder, datau, datas, trail>>

\* lines 480-538: the imports, the token label fallback, TokenSigner(dll_path)
TkSetup ==
    /\ pc = "tk_setup"
    /\ IF ~host.libs
          THEN Fail("endesive_missing") /\ UNCHANGED tlabel
          ELSE /\ tlabel' = IF tlabel = "" THEN FirstLabel(args.dll) ELSE tlabel
               /\ IF Loadable(args.dll)
                     THEN pc' = "tk_cert1_login" /\ UNCHANGED ret
                     ELSE Fail(Raised)
    /\ TokenSame /\ FilesSame /\ CallSame
    /\ UNCHANGED <<keyid, usedkey, certder, datau, datas, trail>>

\* self.login(token_label, _pin), lines 504 and 524: the session is opened on
\* the slot the label resolves to, then the PIN is presented on that session.
\* ok: what follows a login that returned; ex: what follows one that raised.
HsmLogin(ok, ex) ==
    LET slot == GetSlot(args.dll, tlabel)
        k == <<Resolve(args.dll), slot>>
    IN IF slot = NoSlot
          THEN /\ pc' = ok
               /\ UNCHANGED <<sess, logged, hsession, nlogin, ret, trail>>
          ELSE /\ sess' = [sess EXCEPT ![k] = @ + 1]
               /\ hsession' = slot
               /\ nlogin' = nlogin + 1
               /\ IF args.pin = Tok(args.dll, slot).pin
                     THEN /\ logged' = [logged EXCEPT ![k] = TRUE]
                          /\ pc' = ok /\ UNCHANGED <<ret, trail>>
                     ELSE /\ UNCHANGED logged
                          /\ trail' = trail \cup {"token_error"}
                          /\ IF ex = "done" THEN Fail(Raised)
                                            ELSE pc' = ex /\ UNCHANGED ret

\* self.logout(), lines 520 and 535: logout and close of signer.session
HsmLogout ==
    IF hsession = NoSlot
        THEN UNCHANGED <<sess, logged, hsession>>
        ELSE /\ sess' = [sess EXCEPT ![<<Resolve(args.dll), hsession>>] = @ - 1]
             /\ logged' = [logged EXCEPT ![<<Resolve(args.dll), hsession>>] = FALSE]
             /\ hsession' = NoSlot

\* line 504 in the call of line 543: an exception is swallowed at line 548
TkCert1Login ==
    /\ pc = "tk_cert1_login"
    /\ HsmLogin("tk_cert1_body", "tk_read")
    /\ FilesSame /\ CallSame
    /\ UNCHANGED <<tlabel, keyid, usedkey, certder, datau, datas>>

\* line 504 in the call cms.sign makes: an exception ends the method
TkCert2Login ==
    /\ pc = "tk_cert2_login"
    /\ HsmLogin("tk_cert2_body", "done")
    /\ FilesSame /\ CallSame
    /\ UNCHANGED <<tlabel, keyid, usedkey, certder, datau, datas>>

\* line 524
TkSignLogin ==
    /\ pc = "tk_sign_login" /\ certder # NoCert
    /\ HsmLogin("tk_sign_body", "done")
    /\ FilesSame /\ CallSame
    /\ UNCHANGED <<tlabel, keyid, usedkey, certder, datau, datas>>

\* lines 511-515: what certificate() reads from the token, the CKA_VALUE and
\* the CKA_ID of a certificate object
CertReads == {"cert.value", "cert.id"}

\* lines 505-521, the body of certificate(): the first certificate object's
\* (CKA_ID, CKA_VALUE), (None, None) when the token has none; findObjects on
\* no session or on a faulty token raises; logout runs in every case.
\* ok / ex as in HsmLogin.
CertBody(ok, ex) ==
    /\ HsmLogout
    /\ \/ /\ hsession # NoSlot
          /\ LET cs == Tok(args.dll, hsession).certs
             IN /\ certder' = IF Len(cs) = 0 THEN NoCert ELSE cs[1]
                /\ keyid' = IF Len(cs) = 0 THEN NoId ELSE cs[1].id
          /\ trail' = trail \cup CertReads
          /\ pc' = ok /\ UNCHANGED ret
       \/ /\ UNCHANGED <<keyid, certder>>
          /\ trail' = trail \cup {"token_error"}
          /\ IF ex = "done" THEN Fail(Raised) ELSE pc' = ex /\ UNCHANGED ret

\* lines 541-549
TkCert1Body ==
    /\ pc = "tk_cert1_body"
    /\ CertBody("tk_read", "tk_read")
    /\ FilesSame /\ CallSame
    /\ UNCHANGED <<tlabel, nlogin, usedkey, datau, datas>>

\* lines 567-569
TkRead ==
    /\ pc = "tk_read"
    /\ IF fs[args.input].exists
          THEN /\ datau' = fs[args.input].data
               /\ trail' = trail \cup {"input_read"}
               /\ pc' = "tk_cert2_login" /\ UNCHANGED ret
          ELSE Fail(Raised) /\ UNCHANGED <<datau, trail>>
    /\ TokenSame /\ FilesSame /\ CallSame
    /\ UNCHANGED <<tlabel, keyid, usedkey, certder, datas>>

\* certificate() as cms.sign calls it (line 572): the CMS builder cannot
\* use (None, None), so a token without a certificate ends the method
TkCert2Body ==
    /\ pc = "tk_cert2_body"
    /\ CertBody("tk_sign_login", "done")
    /\ FilesSame /\ CallSame
    /\ UNCHANGED <<tlabel, nlogin, usedkey, datau, datas>>

\* between certificate() and sign() inside cms.sign: no certificate, no CMS
TkCertCheck ==
    /\ pc = "tk_sign_login" /\ certder = NoCert
    /\ Fail(Raised)
    /\ TokenSame /\ FilesSame /\ CallSame
    /\ UNCHANGED <<tlabel, keyid, usedkey, certder, datau, datas, trail>>

\* line 529: the mechanism sign() hands to session.sign
SignMechanism(tok, mech) == MechOf(mech)

\* a sign() that also reads the CKA_VALUE of the private-key object
SignReadsKey == {"signature", "key.value"}

\* lines 530-533: what sign() reads from the token, the signature bytes
SignReads == {"signature"}

\* lines 525-535, the body of sign(): the first private-key object signs
\* with the mechanism of the digest; a token fault, a token without a private
\* key and a mechanism the token does not support raise; logout runs in
\* every case
TkSignBody ==
    /\ pc = "tk_sign_body"
    /\ HsmLogout
    /\ \/ /\ hsession # NoSlot
          /\ LET t == Tok(args.dll, hsession)
                 m == SignMechanism(t, Digest)
             IN /\ Len(t.keys) > 0
                /\ \/ /\ m \in t.mechs
                      /\ usedkey' = t.keys[1]
                      /\ trail' = trail \cup {"token_sign", m} \cup SignReads
                      /\ pc' = "tk_cms" /\ UNCHANGED ret
                   \/ /\ m # ""
                      /\ trail' = trail \cup {"token_error", m}
                      /\ Fail(Raised) /\ UNCHANGED usedkey
       \/ /\ trail' = trail \cup {"token_error"}
          /\ Fail(Raised) /\ UNCHANGED usedkey
    /\ FilesSame /\ CallSame
    /\ UNCHANGED <<tlabel, nlogin, keyid, certder, datau, datas>>

\* lines 530-533: session.sign is a blocking call into the module, made
\* without a timeout; on a token that does not answer it does not return
TkSignWait ==
    /\ pc = "tk_sign_body"
    /\ hsession # NoSlot /\ Len(Tok(args.dll, hsession).keys) > 0
    /\ pc' = "tk_wait"
    /\ TokenSame /\ FilesSame /\ CallSame /\ SignSame
    /\ UNCHANGED <<ret, trail>>

\* a build that creates the output file before the CMS exists
TkCmsOutputFirst ==
    /\ pc = "tk_cms"
    /\ fs' = [fs EXCEPT ![args.output] = File(<<>>)]
    /\ \/ \E s \in Sigs : datas' = s /\ pc' = "w_open" /\ UNCHANGED ret
       \/ Fail(Raised) /\ UNCHANGED datas
    /\ TokenSame /\ CallSame
    /\ UNCHANGED <<wopen, tlabel, keyid, usedkey, certder, datau, trail>>

\* lines 572-578: the CMS is built around the signature, or the build raises
TkCms ==
    /\ pc = "tk_cms"
    /\ \/ \E s \in Sigs : datas' = s /\ pc' = "w_open" /\ UNCHANGED ret
       \/ Fail(Raised) /\ UNCHANGED datas
    /\ TokenSame /\ FilesSame /\ CallSame
    /\ UNCHANGED <<tlabel, keyid, usedkey, certder, datau, trail>>

\* ------------------------------------ writing the output (580-583, 679-682)
\* open(output_file, 'wb'): the file is created or truncated
WrOpen ==
    /\ pc = "w_open"
    /\ trail' = trail \cup {"embed"}
    /\ \/ /\ fs' = [fs EXCEPT ![args.output] = File(<<>>)]
          /\ wopen' = wopen \cup {args.output}
          /\ pc' = "w_data" /\ UNCHANGED ret
       \/ Fail(Raised) /\ FilesSame
    /\ TokenSame /\ CallSame /\ SignSame

\* f.write(data) on the file opened: the bytes follow those written before
Written(data) == [fs EXCEPT ![args.output] = File(@.data \o data)]

\* a write that leaves the input bytes out
WrDataSkipped ==
    /\ pc = "w_data"
    /\ \/ pc' = "w_sig" /\ UNCHANGED <<ret, fs>>
       \/ Fail(Raised) /\ UNCHANGED fs
    /\ TokenSame /\ CallSame /\ SignSame
    /\ UNCHANGED <<wopen, trail>>

\* f.write(datau), lines 582 and 681
WrData ==
    /\ pc = "w_data"
    /\ \/ /\ fs' = Written(datau)
          /\ pc' = "w_sig" /\ UNCHANGED ret
       \/ Fail(Raised) /\ UNCHANGED fs
    /\ TokenSame /\ CallSame /\ SignSame
    /\ UNCHANGED <<wopen, trail>>

\* f.write(datas), close, return (True, ...): lines 583-586 and 682-685
WrSig ==
    /\ pc = "w_sig"
    /\ \/ /\ fs' = Written(datas)
          /\ pc' = "done" /\ ret' = [ok |-> TRUE, kind |-> "signed"]
       \/ Fail(Raised) /\ UNCHANGED fs
    /\ TokenSame /\ CallSame /\ SignSame
    /\ UNCHANGED <<wopen, trail>>

\* -------------------------------------------- sign_pdf_with_pfx (588-699)
CallSignPfx ==
    \E i \in Paths, o \in Paths, f \in PfxNames, w \in Passwords :
        Begin("sign_pfx",
              [NoArgs EXCEPT !.input = i, !.output = o, !.pfx = f, !.password = w],
              "pfx_load")

\* a validity check that lets every certificate pass
CertNeverOutside(cert) == FALSE

\* lines 639-647: now < not_valid_before or now > not_valid_after
CertOutsideValidity(cert) == ~cert.valid

\* lines 625-627, pkcs12.load_key_and_certificates: the text of the
\* ValueError it raises, "" when the container loads.  The structure is
\* decoded first; the MAC check and the decryption that follow fail in the
\* same way for a wrong passphrase and for damaged content.
LoadError(c, password) ==
    IF ~c.der THEN "Could not deserialize PKCS12 data"
    ELSE IF ~c.wellformed \/ password # c.pass
        THEN "Invalid password or PKCS12 data"
    ELSE ""

\* line 690: "password" in str(e).lower()
MentionsPassword(msg) == msg = "Invalid password or PKCS12 data"

\* lines 619-647: the container is read and parsed, then the certificate's
\* validity period is checked.  A malformed container raises ValueError; so
\* does a wrong passphrase, and the text of the library's message decides
\* between the two results of lines 689-692.
PfxLoad ==
    /\ pc = "pfx_load"
    /\ LET c == Pfx(args.pfx)
           e == LoadError(c, args.password)
       IN IF ~c.exists THEN Fail("pfx_not_found")
          ELSE IF e # ""
              THEN Fail(IF MentionsPassword(e) THEN "incorrect_password"
                                              ELSE "invalid_file")
          ELSE IF ~c.haskey THEN Fail("no_cert_or_key")
          ELSE IF CertOutsideValidity(c.cert) THEN Fail("cert_not_valid")
          ELSE pc' = "pfx_read" /\ UNCHANGED ret
    /\ certder' = IF pc' = "pfx_read" THEN Pfx(args.pfx).cert ELSE certder
    /\ TokenSame /\ FilesSame /\ CallSame
    /\ UNCHANGED <<tlabel, keyid, usedkey, datau, datas, trail>>

\* lines 665-667; a missing input raises FileNotFoundError, which line 687
\* reports as a missing certificate file
PfxRead ==
    /\ pc = "pfx_read"
    /\ IF fs[args.input].exists
          THEN /\ datau' = fs[args.input].data
               /\ trail' = trail \cup {"input_read"}
               /\ pc' = "pfx_sign" /\ UNCHANGED ret
          ELSE Fail("pfx_not_found") /\ UNCHANGED <<datau, trail>>
    /\ TokenSame /\ FilesSame /\ CallSame
    /\ UNCHANGED <<tlabel, keyid, usedkey, certder, datas>>

\* lines 670-677: endesive is imported (line 693 when it is missing), then
\* cms.sign runs with the in-memory key
PfxSign ==
    /\ pc = "pfx_sign"
    /\ IF ~host.libs
          THEN Fail("library_missing") /\ UNCHANGED <<datas, trail>>
          ELSE /\ trail' = trail \cup {"pfx_sign"}
               /\ \/ \E s \in Sigs : datas' = s /\ pc' = "w_open" /\ UNCHANGED ret
                  \/ Fail(Raised) /\ UNCHANGED datas
    /\ TokenSame /\ FilesSame /\ CallSame
    /\ UNCHANGED <<tlabel, keyid, usedkey, certder, datau>>

\* ------------------------------------ get_certificates_from_token (309-380)
CallGetCerts ==
    \E d \in Modules, s \in Slots, p \in Pins \cup {""} :
        Begin("get_certs",
              [NoArgs EXCEPT !.dll = d, !.slot = s, !.pin = p],
              "gc_open")

\* get_certificates_from_token returns a list; inside
\* list_certificates_windows (lines 780-789) the list is tagged and appended
GcReturn(list) ==
    IF op = "list"
        THEN /\ found' = found \o list
             /\ li' = li + 1
             /\ pc' = "lc_loop" /\ UNCHANGED ret
        ELSE /\ found' = list
             /\ pc' = "done" /\ ret' = [ok |-> TRUE, kind |-> "list"]
             /\ UNCHANGED li

\* lines 323-330: import, load, openSession; every exception returns []
GcOpen ==
    /\ pc = "gc_open"
    /\ IF host.libs /\ Loadable(args.dll) /\ Tok(args.dll, args.slot).present
          THEN /\ sess' = [sess EXCEPT ![<<Resolve(args.dll), args.slot>>] = @ + 1]
               /\ pc' = "gc_login"
               /\ UNCHANGED <<ret, found, li>>
          ELSE GcReturn(<<>>) /\ UNCHANGED sess
    /\ FilesSame /\ CallKept /\ SignSame
    /\ UNCHANGED <<logged, hsession, nlogin, trail, args, di, sj, seen, loads,
                   tokens>>

\* a login whatever was passed
PinAlways(pin) == TRUE

\* line 333: if pin
PinGiven(pin) == pin # ""

\* lines 332-334: login if a PIN was passed; a rejected PIN raises, and the
\* handler of line 378 returns []
GcLogin ==
    /\ pc = "gc_login"
    /\ IF ~PinGiven(args.pin)
          THEN /\ pc' = "gc_find"
               /\ UNCHANGED <<logged, nlogin, ret, found, li>>
          ELSE /\ nlogin' = nlogin + 1
               /\ IF args.pin = Tok(args.dll, args.slot).pin
                     THEN /\ logged' = [logged EXCEPT ![<<Resolve(args.dll), args.slot>>] = TRUE]
                          /\ pc' = "gc_find"
                          /\ UNCHANGED <<ret, found, li>>
                     ELSE GcReturn(<<>>) /\ UNCHANGED logged
    /\ FilesSame /\ CallKept /\ SignSame
    /\ UNCHANGED <<sess, hsession, trail, args, di, sj, seen, loads, tokens>>

\* lines 343-349: the attributes read of each certificate object
GcReads == {"cert.value", "cert.label", "cert.id", "cert.subject"}

\* lines 336-373: the certificate objects are read, then logout and
\* closeSession; findObjects raising goes to the handler of line 378
GcFind ==
    /\ pc = "gc_find"
    /\ \/ /\ sess' = [sess EXCEPT ![<<Resolve(args.dll), args.slot>>] = @ - 1]
          /\ logged' = [logged EXCEPT ![<<Resolve(args.dll), args.slot>>] = FALSE]
          /\ trail' = trail \cup GcReads
          /\ GcReturn(Tok(args.dll, args.slot).certs)
       \/ /\ UNCHANGED <<sess, logged, trail>>
          /\ GcReturn(<<>>)
    /\ FilesSame /\ CallKept /\ SignSame
    /\ UNCHANGED <<hsession, nlogin, args, di, sj, seen, loads, tokens>>

\* -------------------------------------------- detect_usb_tokens (158-262)
\* the static list, TOKEN_DLLS of the platform (lines 173-183)
DllOrder == <<"dllA", "dllB">>

\* "if x not in list: list.append(x)" over the items, in order
RECURSIVE AppendNew(_, _)
AppendNew(list, items) ==
    IF Len(items) = 0 THEN list
    ELSE AppendNew(IF \E i \in 1..Len(list) : list[i] = items[1]
                      THEN list ELSE Append(list, items[1]),
                   Tail(items))

\* lines 78-156, _discover_token_dlls: nothing off Windows; the paths the
\* directory search finds, then the registry values that name an existing
\* file; a registry that cannot be read is logged and adds nothing
DiscoverTokenDlls(h) ==
    IF ~h.win THEN <<>>
    ELSE AppendNew(AppendNew(<<>>, h.walk),
                   IF h.reg.ok
                       THEN SelectSeq(h.reg.vals,
                                      LAMBDA v : Resolve(v) \in h.mods)
                       ELSE <<>>)

\* lines 173-183: dll_paths
DllPaths(h) ==
    IF h.win THEN AppendNew(DllOrder, DiscoverTokenDlls(h)) ELSE DllOrder

CallDetect == Begin("detect", NoArgs, "dt_dll")

\* lines 772-777: list_certificates_windows starts with detect_usb_tokens
CallList == Begin("list", NoArgs, "dt_dll")

\* a build without the handler of line 251
OnModuleErrorRaise == "raise"

\* lines 251-252: a module that fails to load or to list its slots is logged
\* and the loop goes on
OnModuleError == "skip"

\* a handler that starts the list again
TokensDropped(toks) == <<>>

\* lines 251-252: the handler leaves the tokens found so far alone
AfterModuleError(toks) == toks

\* lines 170-192 and 254-262: the next module is loaded and its slots listed;
\* a missing PKCS#11 binding returns [], a path that does not exist is
\* skipped, so is a module whose load or getSlotList raises; past the last
\* module the tokens are stored and returned
DtDll ==
    /\ pc = "dt_dll"
    /\ IF ~host.libs
          THEN /\ pc' = "done" /\ ret' = [ok |-> TRUE, kind |-> "list"]
               /\ UNCHANGED <<di, sj, found, loads, tokens, trail>>
          ELSE IF di > Len(DllPaths(host))
          THEN /\ IF op = "list"
                     THEN pc' = "lc_loop" /\ UNCHANGED <<ret, found>>
                     ELSE /\ pc' = "done" /\ found' = tokens
                          /\ ret' = [ok |-> TRUE, kind |-> "list"]
               /\ UNCHANGED <<di, sj, loads, tokens, trail>>
          ELSE IF Loadable(DllPaths(host)[di])
          THEN /\ loads' = Append(loads, Resolve(DllPaths(host)[di]))
               /\ \/ /\ pc' = "dt_slot" /\ sj' = 1
                     /\ UNCHANGED <<di, ret, found, tokens, trail>>
                  \/ /\ trail' = trail \cup {"load_failed"}
                     /\ tokens' = AfterModuleError(tokens)
                     /\ IF OnModuleError = "skip"
                           THEN /\ di' = di + 1
                                /\ UNCHANGED <<pc, ret>>
                           ELSE /\ pc' = "done" /\ UNCHANGED di
                                /\ ret' = [ok |-> FALSE, kind |-> "raised"]
                     /\ UNCHANGED <<sj, found>>
          ELSE /\ di' = di + 1
               /\ UNCHANGED <<pc, sj, ret, found, loads, tokens,
                              trail>>
    /\ TokenSame /\ FilesSame /\ CallKept /\ SignSame
    /\ UNCHANGED <<args, seen, li>>

\* line 404, the 'subject' _parse_certificate returns: cn or str(subject)
ParseSubject(c) == IF c.cn # "" THEN c.cn ELSE c.dn

\* lines 282-305 on the certificate objects cs: the 'subject' of the first
\* certificate whose 'subject' is neither empty nor 'Unknown', "" when there
\* is none
FirstCN(cs) ==
    LET named == SelectSeq(cs, LAMBDA c : ParseSubject(c) \notin {"", "Unknown"})
    IN IF Len(named) = 0 THEN "" ELSE ParseSubject(named[1])

\* lines 225-243: the entry of a token, cn being the certificate holder read
TokenEntry(dll, slot, cn) ==
    [slot |-> slot, label |-> Tok(dll, slot).label,
     display_name |-> IF cn # "" THEN cn ELSE Tok(dll, slot).label,
     cert_holder |-> cn, serial |-> Tok(dll, slot).serial, dll_path |-> dll]

\* a filter that lets every serial through
NeverSeen(serial) == FALSE

\* line 200: if serial in seen_serials
AlreadySeen(serial) == serial \in seen

\* lines 194-223 and 275: token info, the serial filter, and the session that
\* _read_certificate_cn_from_token opens; getTokenInfo raising skips the
\* slot, openSession raising leaves the certificate fields empty
DtSlot ==
    /\ pc = "dt_slot"
    /\ LET dll == DllPaths(host)[di]
           slots == PresentSlots(dll)
       IN IF sj > Len(slots)
             THEN /\ di' = di + 1 /\ pc' = "dt_dll"
                  /\ UNCHANGED <<sj, seen, tokens, sess>>
             ELSE \/ /\ sj' = sj + 1
                     /\ UNCHANGED <<pc, di, seen, tokens, sess>>
                  \/ /\ AlreadySeen(Tok(dll, slots[sj]).serial)
                     /\ sj' = sj + 1
                     /\ UNCHANGED <<pc, di, seen, tokens, sess>>
                  \/ /\ ~AlreadySeen(Tok(dll, slots[sj]).serial)
                     /\ seen' = seen \cup {Tok(dll, slots[sj]).serial}
                     /\ \/ /\ sess' = [sess EXCEPT ![<<Resolve(dll), slots[sj]>>] = @ + 1]
                           /\ pc' = "rc_body"
                           /\ UNCHANGED <<di, sj, tokens>>
                        \/ /\ tokens' = Append(tokens, TokenEntry(dll, slots[sj], ""))
                           /\ sj' = sj + 1
                           /\ UNCHANGED <<pc, di, sess>>
    /\ FilesSame /\ CallKept /\ SignSame
    /\ UNCHANGED <<logged, hsession, nlogin, args, trail, loads, li, found, ret>>

\* line 284: the attribute read of each certificate object
RcReads == {"cert.value"}

\* lines 276-307, then 225-243: the certificates are read and the session is
\* closed in the finally clause, whether findObjects returned or raised
RcBody ==
    /\ pc = "rc_body"
    /\ LET dll == DllPaths(host)[di]
           slot == PresentSlots(dll)[sj]
       IN /\ sess' = [sess EXCEPT ![<<Resolve(dll), slot>>] = @ - 1]
          /\ \/ /\ tokens' = Append(tokens,
                          TokenEntry(dll, slot, FirstCN(Tok(dll, slot).certs)))
                /\ trail' = trail \cup RcReads
             \/ /\ tokens' = Append(tokens, TokenEntry(dll, slot, ""))
                /\ UNCHANGED trail
    /\ sj' = sj + 1 /\ pc' = "dt_slot"
    /\ FilesSame /\ CallKept /\ SignSame
    /\ UNCHANGED <<logged, hsession, nlogin, args, di, seen, loads, li, found, ret>>

\* lines 778-791: get_certificates_from_token for each token, without a PIN
LcLoop ==
    /\ pc = "lc_loop"
    /\ IF li > Len(tokens)
          THEN /\ pc' = "done" /\ ret' = [ok |-> TRUE, kind |-> "list"]
               /\ UNCHANGED args
          ELSE /\ args' = [NoArgs EXCEPT !.dll = tokens[li].dll_path,
                                          !.slot = tokens[li].slot]
               /\ pc' = "gc_open" /\ UNCHANGED ret
    /\ TokenSame /\ FilesSame /\ CallKept /\ SignSame
    /\ UNCHANGED <<trail, di, sj, seen, loads, tokens, li, found>>

\* the method has returned; its locals (the signer object among them) are
\* gone; the dialog flow keeps the list detect_usb_tokens returned (line 1653)
Return ==
    /\ pc = "done"
    /\ pc' = "idle" /\ op' = "none" /\ args' = NoArgs
    /\ tlabel' = "" /\ hsession' = NoSlot /\ keyid' = NoId /\ certder' = NoCert
    /\ usedkey' = NoId
    /\ datau' = <<>> /\ datas' = <<>>
    /\ ret' = NoRet
    /\ pre' = fs /\ preSess' = sess /\ wopen' = {} /\ nlogin' = 0 /\ trail' = {}
    /\ di' = 0 /\ sj' = 0 /\ seen' = {} /\ tokens' = <<>> /\ li' = 0
    /\ loads' = <<>>
    /\ found' = <<>>
    /\ ui' = IF ui.step = "detect" THEN [ui EXCEPT !.tokens = found] ELSE ui
    /\ UNCHANGED <<host, fs, sess, logged, calls>>

\* ------------------------- _sign_with_usb_token (pdf_actions.py 1624-1890)
\* the frame of a step of the dialog flow that calls nothing
UiOnly ==
    /\ TokenSame /\ FilesSame /\ EnumSame /\ SignSame
    /\ UNCHANGED <<host, op, pc, args, ret, calls, pre, preSess, trail>>

\* lines 1653 and 1862: the handler calls detect_usb_tokens and
\* sign_pdf_with_token itself, on the thread Qt runs the handler on (the
\* PDFWorker thread of lines 24-40 is not used for them)
UiThread == "ui"

\* lines 1624-1653: add_signature with a document open and PyKCS11
\* importable goes to _sign_with_usb_token, which calls detect_usb_tokens
UiStart ==
    /\ ui.step = "none" /\ calls < MaxCalls /\ host.libs
    /\ calls' = calls + 1
    /\ Enter("detect", NoArgs, "dt_dll")
    /\ ui' = [NoUi EXCEPT !.step = "detect", !.thread = UiThread]

\* lines 1655-1821: no token ends the flow with a message; otherwise the
\* dialog: Cancel, Sign with an empty PIN (the dialog stays), or Sign with a
\* token chosen and a PIN typed
UiDialog ==
    /\ pc = "idle" /\ ui.step = "detect"
    /\ IF Len(ui.tokens) = 0
          THEN ui' = NoUi
          ELSE \/ ui' = [ui EXCEPT !.step = "cancel_dialog"]
               \/ UNCHANGED ui
               \/ \E k \in 1..Len(ui.tokens), p \in Pins :
                     ui' = [ui EXCEPT !.step = "place", !.sel = k, !.pin = p]
    /\ UiOnly

\* lines 1835-1843 and 1892-1942: the rectangle is drawn, or Escape
UiPlace ==
    /\ pc = "idle" /\ ui.step = "place"
    /\ \/ ui' = [ui EXCEPT !.step = "save"]
       \/ ui' = [ui EXCEPT !.step = "cancel_place"]
    /\ UiOnly

\* a save dialog that creates the file it proposes even when cancelled
UiSaveTouch ==
    /\ pc = "idle" /\ ui.step = "save"
    /\ ui' = [ui EXCEPT !.step = "cancel_save"]
    /\ fs' = [fs EXCEPT !["out.pdf"] = File(<<>>)]
    /\ TokenSame /\ EnumSame /\ SignSame
    /\ UNCHANGED <<host, op, pc, args, ret, calls, pre, preSess, trail, wopen>>

\* lines 1846-1854: the save dialog is cancelled
UiSaveCancel ==
    /\ pc = "idle" /\ ui.step = "save"
    /\ ui' = [ui EXCEPT !.step = "cancel_save"]
    /\ UiOnly

\* lines 1846-1874: a path is chosen and sign_pdf_with_token is called with
\* the open document, the path, and the module, slot and label of the entry
UiSave ==
    /\ pc = "idle" /\ ui.step = "save"
    /\ \E o \in Paths :
          Enter("sign_token",
                [NoArgs EXCEPT !.input = "in.pdf", !.output = o,
                               !.dll = ui.tokens[ui.sel].dll_path,
                               !.slot = ui.tokens[ui.sel].slot,
                               !.pin = ui.pin,
                               !.label = ui.tokens[ui.sel].label],
                "tk_setup")
    /\ ui' = [ui EXCEPT !.step = "sign"]
    /\ UNCHANGED calls

\* lines 1821, 1843 and 1854: the handler returns after a cancellation
UiReturn ==
    /\ pc = "idle"
    /\ ui.step \in {"cancel_dialog", "cancel_place", "cancel_save"}
    /\ ui' = NoUi
    /\ UiOnly

\* lines 1876-1890: the result is shown
UiDone ==
    /\ pc = "idle" /\ ui.step = "sign"
    /\ ui' = NoUi
    /\ UiOnly

Next ==
    \/ UiStart
    \/ UiDialog
    \/ UiPlace
    \/ UiSaveCancel
    \/ UiSave
    \/ UiReturn
    \/ UiDone
    \/ CallSignToken
    \/ TkSetup
    \/ TkCert1Login
    \/ TkCert1Body
    \/ TkRead
    \/ TkCert2Login
    \/ TkCert2Body
    \/ TkCertCheck
    \/ TkSignLogin
    \/ TkSignBody
    \/ TkSignWait
    \/ TkCms
    \/ CallSignPfx
    \/ PfxLoad
    \/ PfxRead
    \/ PfxSign
    \/ CallGetCerts
    \/ GcOpen
    \/ GcLogin
    \/ GcFind
    \/ CallDetect
    \/ CallList
    \/ DtDll
    \/ DtSlot
    \/ RcBody
    \/ LcLoop
    \/ WrOpen
    \/ WrData
    \/ WrSig
    \/ Return

Spec == Init /\ [][Next]_vars

\* ================================================================ claims
SignOps == {"sign_token", "sign_pfx"}
Returned == pc = "done"
Succeeded == pc = "done" /\ ret.ok
Failed == pc = "done" /\ ~ret.ok

\* C1: after a successful sign_pdf_with_token or sign_pdf_with_pfx the output
\* file is the input's bytes, each at its offset, followed by the bytes
\* cms.sign returned and by nothing else.
C1_BytePreservation ==
    (op \in SignOps /\ Succeeded) =>
        /\ fs[args.output].exists
        /\ IsPrefix(pre[args.input].data, fs[args.output].data)
        /\ fs[args.output].data = pre[args.input].data \o datas
        /\ datas \in Sigs

\* a signing call succeeded on a two-byte document
C1_Witness ==
    /\ op = "sign_token" /\ Succeeded
    /\ Len(pre[args.input].data) = 2 /\ args.output # args.input

\* C2: a signing call that fails, at whatever stage, leaves the input file
\* as it was, whatever output path was passed.
C2_NoPartialWrite ==
    (op \in SignOps /\ Failed) => fs[args.input] = pre[args.input]

\* C3: a signing call never opens the input path for writing.
C3_NeverInPlace ==
    op \in SignOps => args.input \notin wopen

\* C4: during and after a signing call the output path holds what it held
\* before the call or the complete signed document, never less.
C4_AtomicPublish ==
    op \in SignOps =>
        \/ fs[args.output] = pre[args.output]
        \/ datas \in Sigs /\ fs[args.output] = File(datau \o datas)

\* C5: as long as a signing call has not reached the write of the output
\* (and so whenever it fails before that), the output path is as it was
\* before the call: not created, not modified.
C5_NoOutputBeforeEmbedding ==
    (op \in SignOps /\ "embed" \notin trail) => fs[args.output] = pre[args.output]

\* a token signing call failed in the CMS build, after the token had signed,
\* with an output path that held a file
C5_Witness ==
    /\ op = "sign_token" /\ Failed
    /\ "token_sign" \in trail /\ "embed" \notin trail
    /\ pre[args.output].exists

\* the token a caller of sign_pdf_with_token selected, as the dialog passes
\* it (pdf_actions.py 1862-1874): module, slot and that token's label
SelectedToken == Tok(args.dll, args.slot)
SelectedAsDetected ==
    /\ host.libs /\ Loadable(args.dll)
    /\ SelectedToken.present
    /\ args.label = SelectedToken.label
    /\ GetSlot(args.dll, args.label) = args.slot

\* C6: sign_pdf_with_token on a token whose certificate is outside its
\* validity period returns the ExpiredCertificate failure and has presented
\* the PIN to the token zero times.
C6_ExpiryGateToken ==
    (/\ op = "sign_token" /\ Returned
     /\ SelectedAsDetected
     /\ Len(SelectedToken.certs) > 0
     /\ ~SelectedToken.certs[1].valid)
        => /\ ret = [ok |-> FALSE, kind |-> "expired_certificate"]
           /\ nlogin = 0

\* C7: sign_pdf_with_pfx on a container whose certificate is expired or not
\* yet valid never computes a signature, never reads the input document and
\* never writes the output path, and it returns a failure.
C7_ExpiryGatePfx ==
    (/\ op = "sign_pfx"
     /\ Pfx(args.pfx).exists /\ Pfx(args.pfx).wellformed
     /\ ~Pfx(args.pfx).cert.valid)
        => /\ "pfx_sign" \notin trail
           /\ "input_read" \notin trail
           /\ wopen = {} /\ fs = pre
           /\ Returned => ~ret.ok

\* the validity check itself rejected a container opened with its passphrase
C7_Witness ==
    /\ op = "sign_pfx" /\ Failed
    /\ args.pfx = "old.pfx" /\ args.password = Pfx(args.pfx).pass
    /\ ret.kind = "cert_not_valid"

\* C8: when get_certificates_from_token has returned, and whenever
\* detect_usb_tokens is outside _read_certificate_cn_from_token, every
\* session the method opened is closed again.
C8_ScopedEnumerationSessions ==
    /\ (op = "get_certs" /\ Returned) => sess = preSess
    /\ (op = "detect" /\ pc # "rc_body") => sess = preSess

\* C9: when sign_pdf_with_token has returned, no session it opened is open
\* and no token is logged in.
C9_SigningSessionCleanup ==
    (op = "sign_token" /\ Returned) =>
        /\ sess = preSess
        /\ \A k \in Keys : ~logged[k]

\* C10: at most one session is open on a (module, slot) pair.
C10_SessionExclusive ==
    \A k \in Keys : sess[k] <= 1

\* the serials of the tokens in the slots of the modules that load
PresentSerials ==
    {Tok(k[1], k[2]).serial :
        k \in {x \in Keys : x[1] \in host.mods /\ Tok(x[1], x[2]).present}}
EntriesOf(serial) == {i \in 1..Len(found) : found[i].serial = serial}

\* C11 as stated: detect_usb_tokens returns exactly one entry for every
\* serial present in some slot of some module that loads.
C11_OneEntryPerPresentSerial ==
    (op = "detect" /\ Returned /\ host.libs) =>
        \A serial \in PresentSerials : Cardinality(EntriesOf(serial)) = 1

\* C11: detect_usb_tokens returns no two entries with the same serial and
\* exactly one entry for every serial whose token info was read through at
\* least one module (the serials in seen_serials); every entry describes a
\* present token of a module that loads.  A serial whose token info could
\* not be read through the first module is listed when a later module reads it.
C11_OneEntryPerSerialRead ==
    (op = "detect" /\ Returned) =>
        /\ \A serial \in seen : Cardinality(EntriesOf(serial)) = 1
        /\ \A i \in 1..Len(found) :
              /\ found[i].serial \in seen \cap PresentSerials
              /\ Loadable(found[i].dll_path)
              /\ Tok(found[i].dll_path, found[i].slot).serial = found[i].serial

\* the token is in a slot of both modules, reading it through the first
\* module failed, and its entry comes from the second module
C11_Witness ==
    /\ op = "detect" /\ Returned
    /\ Loadable("dllA") /\ Tok("dllA", 0).serial = "S1"
    /\ \E i \in 1..Len(found) :
          found[i].serial = "S1" /\ found[i].dll_path = "dllB"

\* C12: sign_pdf_with_token with a PIN the selected token rejects returns the
\* AuthenticationFailed kind, a kind no other failure returns, and leaves the
\* input file as it was.
C12_WrongPinKind ==
    (/\ op = "sign_token" /\ Returned
     /\ SelectedAsDetected /\ args.pin # SelectedToken.pin)
        => /\ ret = [ok |-> FALSE, kind |-> "authentication_failed"]
           /\ fs[args.input] = pre[args.input]

\* C13: once a login or another token call of sign_pdf_with_token has failed,
\* the call logs in no more and opens or closes no further session.
C13_ErrorsTerminal ==
    [][(op = "sign_token" /\ pc # "done" /\ "token_error" \in trail)
          => (nlogin' = nlogin /\ sess' = sess)]_vars

\* C14: sign_pdf_with_pfx reports a malformed container as a corrupt
\* container and a wrong passphrase as an incorrect passphrase, never one as
\* the other.
C14_ContainerErrors ==
    (op = "sign_pfx" /\ Returned /\ Pfx(args.pfx).exists) =>
        /\ ~Pfx(args.pfx).wellformed => ret.kind = "invalid_file"
        /\ (Pfx(args.pfx).wellformed /\ args.password # Pfx(args.pfx).pass)
              => ret.kind = "incorrect_password"

\* C15: no method reads the value of a private-key object: what it reads of
\* token objects are certificate attributes and signature bytes.
C15_KeyConfinement ==
    /\ "key.value" \notin trail
    /\ op = "sign_token" =>
          trail \cap (GcReads \cup {"signature", "key.value"})
              \subseteq CertReads \cup {"signature"}

\* a token signing call succeeded: the certificate was read and the private
\* key signed
C15_Witness ==
    /\ op = "sign_token" /\ Succeeded
    /\ "signature" \in trail /\ "cert.value" \in trail /\ usedkey # NoId

\* the token the running sign_pdf_with_token logs in to
LoginSlot == GetSlot(args.dll, tlabel)
LoginTokenLacks(m) ==
    LoginSlot # NoSlot /\ m \notin Tok(args.dll, LoginSlot).mechs

\* C16: sign() invokes session.sign only with the RSA-PKCS mechanism of the
\* requested digest; on a token without that mechanism the call fails with
\* the MechanismUnsupported kind and nothing is signed.
C16_NoMechanismDowngrade ==
    op = "sign_token" =>
        /\ trail \cap AllMechs \subseteq {MechOf(Digest)}
        /\ (MechOf(Digest) \in trail /\ LoginTokenLacks(MechOf(Digest)))
              => /\ "token_sign" \notin trail
                 /\ ret = [ok |-> FALSE, kind |-> "mechanism_unsupported"]

\* C17: the private key sign() uses has the CKA_ID certificate() returned.
C17_KeyMatchesCertificate ==
    (op = "sign_token" /\ "token_sign" \in trail) => usedkey = keyid

\* C18: sign_pdf_with_token opens its sessions on the slot it was passed.
C18_SelectedTokenBinding ==
    (op = "sign_token" /\ Loadable(args.dll) /\ SelectedToken.present)
        => hsession \in {NoSlot, args.slot}

\* C19: with a cert_label, the certificate sign_pdf_with_token signs with is
\* the token's certificate of that label.
C19_CertificateSelection ==
    (/\ op = "sign_token" /\ args.certlabel # "" /\ "token_sign" \in trail
     /\ LoginSlot # NoSlot
     /\ \E i \in 1..Len(Tok(args.dll, LoginSlot).certs) :
           Tok(args.dll, LoginSlot).certs[i].label = args.certlabel)
        => certder.label = args.certlabel

\* C20: in sign_pdf_with_token the input is read and the certificate fetched
\* before the token signs, the output is written only after the token has
\* signed, and a failed token call is followed by no further step.
C20_StageOrdering ==
    [][op = "sign_token" =>
          /\ "embed" \in trail' => "token_sign" \in trail'
          /\ "token_sign" \in trail' =>
                ("input_read" \in trail' /\ CertReads \subseteq trail')
          /\ ("token_error" \in trail /\ pc # "done") => pc' = "done"]_vars

\* the CNs of the certificates of the token an entry describes
EntryCNs(e) ==
    LET cs == Tok(e.dll_path, e.slot).certs
    IN {cs[j].cn : j \in 1..Len(cs)} \ {""}

Distinct(seq) == \A i, j \in 1..Len(seq) : seq[i] = seq[j] => i = j

\* C22: detect_usb_tokens returns a list on every host, and the modules it
\* loaded are files that exist: a path that is missing, a registry that
\* cannot be read, an absent PKCS#11 binding and a module that fails to load
\* are skipped.
C22_DiscoveryNeverRaises ==
    (op = "detect" /\ Returned) =>
        /\ ret = [ok |-> TRUE, kind |-> "list"]
        /\ \A i \in 1..Len(loads) : loads[i] \in host.mods
        /\ ~host.libs => found = <<>>

\* on a Windows host whose registry cannot be read a module failed to load,
\* and detect_usb_tokens returned
C22_Witness ==
    /\ op = "detect" /\ Returned
    /\ host.win /\ ~host.reg.ok /\ "load_failed" \in trail

\* C23: no module file is loaded twice in one discovery pass, and when the
\* pass is over the paths probed name pairwise different files.
C23_ModuleListDedup ==
    op = "detect" =>
        /\ Distinct(loads)
        /\ Returned =>
              Distinct([i \in 1..Len(DllPaths(host)) |-> Resolve(DllPaths(host)[i])])

C30_FailureIsolation ==
    [][(op = "detect" /\ pc # "done" /\ host.libs) =>
          /\ IsPrefix(tokens, tokens')
          /\ pc' = "done" =>
                /\ found' = tokens'
                /\ \A serial \in seen' :
                      \E i \in 1..Len(found') : found'[i].serial = serial]_vars

\* a module failed to load in a pass that returned an entry
C30_Witness ==
    /\ op = "detect" /\ Returned
    /\ "load_failed" \in trail /\ Len(found) > 0

\* C24: a running sign_pdf_with_token is never at a point it cannot leave:
\* whatever the token does, a next step (in the end the return) is possible.
C24_BoundedHardwareWait ==
    (op = "sign_token" /\ pc # "done") => ENABLED Next

\* C27: detect_usb_tokens returns no entry for a token without a certificate
\* object, and sign_pdf_with_token on such a token stops after the first
\* certificate lookup with the CertificateNotFound kind.
C27_MissingCertificate ==
    /\ (op = "detect" /\ Returned) =>
          \A i \in 1..Len(found) :
              Len(Tok(found[i].dll_path, found[i].slot).certs) > 0
    /\ (/\ op = "sign_token" /\ pc # "tk_setup"
        /\ LoginSlot # NoSlot /\ Len(Tok(args.dll, LoginSlot).certs) = 0)
          => /\ pc \notin {"tk_cert2_login", "tk_cert2_body", "tk_sign_login",
                           "tk_sign_body"}
             /\ Returned => ret = [ok |-> FALSE, kind |-> "certificate_not_found"]

\* C28: sign_pdf_with_token succeeds only when the token has signed and the
\* CMS library has built the signature the output ends with; without the
\* library or without a signature it writes nothing and returns a failure.
C28_NoStampSubstitution ==
    op = "sign_token" =>
        /\ Succeeded =>
              /\ host.libs /\ "token_sign" \in trail /\ datas \in Sigs
              /\ fs[args.output].data = datau \o datas
        /\ (~host.libs \/ datas \notin Sigs) =>
              /\ wopen = {} /\ fs = pre
              /\ Returned => ~ret.ok

\* the CMS library is missing and the call failed for that reason
C28_Witness ==
    /\ op = "sign_token" /\ Failed
    /\ ~host.libs /\ ret.kind = "endesive_missing"

\* the positions of the dialog flow before sign_pdf_with_token is called
PreSign ==
    {"detect", "place", "save", "cancel_dialog", "cancel_place", "cancel_save"}

\* C25: the token discovery and the sign_pdf_with_token call the dialog flow
\* makes never run on the UI thread.
C25_OffUiThread ==
    (ui.step \in {"detect", "sign"} /\ op \in {"detect", "sign_token"})
        => ui.thread # "ui"

\* C26: until the dialog flow has a token, a PIN, a placement and an output
\* path, each of its steps (a cancellation, an empty PIN, the return after
\* one) leaves every file and every login as it was, no login has been made,
\* and sign_pdf_with_token starts only from the accepted save dialog.
C26_CancelNoSideEffects ==
    [][ui.step \in PreSign =>
          /\ nlogin = 0 /\ nlogin' = 0
          /\ fs' = fs /\ logged' = logged
          /\ op # "sign_token"
          /\ op' = "sign_token" => (ui.step = "save" /\ ui'.step = "sign")]_vars

\* the save dialog was cancelled after a token and a PIN were chosen
C26_Witness ==
    /\ ui.step = "cancel_save" /\ ui.sel > 0 /\ ui.pin # ""
    /\ op = "none" /\ fs = pre /\ nlogin = 0

====
